---- MODULE Spec2Model ----
(***************************************************************************)
(* JaxRK: finite-rank RKHS vectors (jaxrk/rkhs/vector.py) and the finite   *)
(* rank operators built on them (jaxrk/rkhs/operator.py).                  *)
(*                                                                         *)
(* Numbers.  Array entries are exact rationals <<n, d>> in lowest terms    *)
(* with d > 0; floating-point rounding is not modelled.  An array carries  *)
(* its dtype, "int" or "float", because reduce_gram casts the Gram matrix  *)
(* to the dtype of the prefactors.  Points are one-dimensional: an array   *)
(* of N points is an N x 1 matrix, a sequence of one-entry rows.           *)
(***************************************************************************)
EXTENDS Integers, Sequences, FiniteSets, TLC

VARIABLES vec, ops, ret

vars == <<vec, ops, ret>>

(***************************************************************************)
(* Bounds of the model.                                                    *)
(***************************************************************************)
\* the largest number of input space points of a constructed vector
MaxPoints == 4
\* the largest number of points of the second operand of inner / multiply
MaxOther == 2
\* the longest chain of method calls on returned objects, v.f().g()
MaxChain == 2
\* the largest number of operator objects alive at once
MaxOps == 3

PrefactorValues == {1, 2}
Dtypes == {"int", "float"}

(***************************************************************************)
(* Exact rational arithmetic.                                              *)
(***************************************************************************)
Abs(x) == IF x < 0 THEN -x ELSE x

RECURSIVE GCD(_, _)
GCD(a, b) == IF b = 0 THEN a ELSE GCD(b, a % b)

Q(n, d) ==
  LET g == GCD(Abs(n), Abs(d))
      s == IF d < 0 THEN -1 ELSE 1
  IN  <<(s * n) \div g, (s * d) \div g>>

QInt(n) == <<n, 1>>
\* sums over the least common denominator and products reduced crosswise,
\* which keeps the intermediate integers small
QAdd(a, b) ==
  LET g == GCD(a[2], b[2])
  IN  Q(a[1] * (b[2] \div g) + b[1] * (a[2] \div g), (a[2] \div g) * b[2])
QNeg(a) == <<-a[1], a[2]>>
QSub(a, b) == QAdd(a, QNeg(b))
QMul(a, b) ==
  LET g1 == GCD(Abs(a[1]), b[2])
      g2 == GCD(Abs(b[1]), a[2])
  IN  Q((a[1] \div g1) * (b[1] \div g2), (a[2] \div g2) * (b[2] \div g1))
QDiv(a, b) == QMul(a, Q(b[2], b[1]))
QAbs(a) == <<Abs(a[1]), a[2]>>

\* numpy's cast of a float to an integer type: truncation toward zero
QTrunc(a) == IF a[1] >= 0 THEN QInt(a[1] \div a[2]) ELSE QInt(-((-a[1]) \div a[2]))

\* x.astype(dtype)
astype(x, dtype) == IF dtype = "int" THEN QTrunc(x) ELSE x

\* numpy's type promotion of a binary operation on two arrays
promote(d1, d2) == IF d1 = "int" /\ d2 = "int" THEN "int" ELSE "float"

RECURSIVE QSum(_)
QSum(s) == IF s = <<>> THEN QInt(0) ELSE QAdd(s[1], QSum(Tail(s)))

(***************************************************************************)
(* Matrices are sequences of rows of equal length.                         *)
(***************************************************************************)
NRows(m) == Len(m)
NCols(m) == IF m = <<>> THEN 0 ELSE Len(m[1])

MatAsType(m, dtype) == [i \in 1..NRows(m) |-> [j \in 1..NCols(m) |-> astype(m[i][j], dtype)]]

\* np.transpose(gram, perm): perm is <<0, 1>> (identity) or <<1, 0>> (swap)
transpose(m, perm) ==
  IF perm = <<0, 1>> THEN m
  ELSE [j \in 1..NCols(m) |-> [i \in 1..NRows(m) |-> m[i][j]]]

\* the row-major flattening of a matrix
Flatten(m) == [n \in 1..(NRows(m) * NCols(m)) |->
                 m[((n - 1) \div NCols(m)) + 1][((n - 1) % NCols(m)) + 1]]

MatMul(a, b) == [i \in 1..NRows(a) |-> [j \in 1..NCols(b) |->
                   QSum([l \in 1..NCols(a) |-> QMul(a[i][l], b[l][j])])]]

\* np.diag(v) of a 1-D array
diag(v) == [i \in 1..Len(v) |-> [j \in 1..Len(v) |-> IF i = j THEN v[i] ELSE QInt(0)]]

\* np.eye(n)
eye(n) == [i \in 1..n |-> [j \in 1..n |-> IF i = j THEN QInt(1) ELSE QInt(0)]]

MatAdd(a, b) == [i \in 1..NRows(a) |-> [j \in 1..NCols(a) |-> QAdd(a[i][j], b[i][j])]]
MatScale(c, a) == [i \in 1..NRows(a) |-> [j \in 1..NCols(a) |-> QMul(c, a[i][j])]]
\* the elementwise power matr**2
MatSquareElems(a) == [i \in 1..NRows(a) |-> [j \in 1..NCols(a) |-> QMul(a[i][j], a[i][j])]]

(***************************************************************************)
(* The kernel capability: K(X, Y) is the Gram matrix of two point arrays,  *)
(* K.var a scalar.  Two kernel objects; a kernel equals only itself.       *)
(***************************************************************************)
Kernels == {"k1", "k2"}

KernelVar(k) == IF k = "k1" THEN QInt(1) ELSE Q(1, 2)

\* k1(x, y) = 1 / (1 + (x - y)^2), k2(x, y) = 1 / (1 + |x - y|)
KernelValue(k, x, y) ==
  LET d == QSub(x[1], y[1])
  IN  IF k = "k1" THEN QDiv(QInt(1), QAdd(QInt(1), QMul(d, d)))
      ELSE QDiv(QInt(1), QAdd(QInt(1), QAbs(d)))

\* kern(X, Y)
Gram(k, X, Y) == [i \in 1..Len(X) |-> [j \in 1..Len(Y) |-> KernelValue(k, X[i], Y[j])]]

\* kern(X, full = False): the diagonal of the Gram matrix, a 1-D array
GramDiag(k, X) == [i \in 1..Len(X) |-> KernelValue(k, X[i], X[i])]

(***************************************************************************)
(* FiniteVec.                                                              *)
(***************************************************************************)
NoVec == [none |-> TRUE]
NoVal == [none |-> TRUE]

\* an optional argument: <<>> is None, <<x>> is the value x
None == <<>>
Some(x) == <<x>>

Ones(n) == [i \in 1..n |-> QInt(1)]

\* A 1-D array of prefactors with its dtype
Arr(a, dtype) == [a |-> a, dtype |-> dtype, ndim |-> 1]

\* FiniteVec(kern, inspace_points, prefactors = None, points_per_split = None):
\* the constructed object, or the exception the constructor raises.
\* inspace_points is a 2-D array; prefactors is None or Some(array), an array
\* being [a |-> entries, dtype |-> its dtype, ndim |-> its number of dimensions].
FiniteVec(kern, inspace_points, prefactors, points_per_split) ==
  LET N == Len(inspace_points)
      pref == IF prefactors = None
              THEN Arr([i \in 1..N |->
                         IF points_per_split = None THEN Q(1, N)
                         ELSE Q(1, points_per_split[1])], "float")
              ELSE prefactors[1]
  IN  IF pref.ndim = 0
      THEN [err |-> "IndexError", obj |-> NoVec]
      ELSE IF Len(pref.a) # N \/ pref.ndim # 1
      THEN [err |-> "AssertionError", obj |-> NoVec]
      ELSE IF points_per_split # None
      THEN IF points_per_split[1] = 0
           THEN [err |-> "ZeroDivisionError", obj |-> NoVec]
           ELSE [err |-> "",
                 obj |-> [k |-> kern, inspace_points |-> inspace_points,
                          prefactors |-> pref.a, dtype |-> pref.dtype,
                          is_simple |-> FALSE,
                          points_per_split |-> points_per_split[1],
                          len |-> N \div points_per_split[1]]]
      ELSE [err |-> "",
            obj |-> [k |-> kern, inspace_points |-> inspace_points,
                     prefactors |-> pref.a, dtype |-> pref.dtype,
                     is_simple |-> TRUE,
                     points_per_split |-> 0,
                     len |-> N]]

\* self.__reconstruction_kwargs
reconstruction_kwargs(self) ==
  IF self.is_simple THEN None ELSE Some(self.points_per_split)

\* FiniteVec.construct_RKHS_Elem(kern, inspace_points, prefactors)
construct_RKHS_Elem(kern, inspace_points, prefactors) ==
  FiniteVec(kern, inspace_points, prefactors, Some(Len(inspace_points)))

\* updated() forgetting the reconstruction keyword arguments
updated_without_kwargs(self, prefactors) ==
  IF Len(self.prefactors) # Len(prefactors.a)
  THEN [err |-> "AssertionError", obj |-> NoVec]
  ELSE FiniteVec(self.k, self.inspace_points, Some(prefactors), None)

\* self.updated(prefactors)
updated(self, prefactors) ==
  IF Len(self.prefactors) # Len(prefactors.a)
  THEN [err |-> "AssertionError", obj |-> NoVec]
  ELSE FiniteVec(self.k, self.inspace_points, Some(prefactors), reconstruction_kwargs(self))

(***************************************************************************)
(* Reductions of a Gram matrix.  A fallible helper returns                 *)
(* [err |-> exception or "", val |-> result].                              *)
(***************************************************************************)
\* np.reshape(gram, (-1, points_per_split, gram.shape[-1])): val[g][r] is row
\* r of group g
reshape_balanced(self, gram) ==
  LET k == self.points_per_split
      C == NCols(gram)
      flat == Flatten(gram)
  IN  IF (k * C = 0) \/ (Len(flat) % (k * C) # 0)
      THEN [err |-> "TypeError", val |-> <<>>]
      ELSE [err |-> "",
            val |-> [g \in 1..(Len(flat) \div (k * C)) |->
                      [r \in 1..k |->
                        [c \in 1..C |-> flat[(((g - 1) * k) + (r - 1)) * C + c]]]]]

\* np.sum(x, axis = 1) of a 3-D array: the sum of the rows of each group
SumAxis1(x, C) ==
  [g \in 1..Len(x) |-> [c \in 1..C |-> QSum([r \in 1..Len(x[g]) |-> x[g][r][c]])]]

\* self.__reduce_balanced_ragged__(gram, axis)
reduce_balanced_ragged(self, gram, axis) ==
  LET perm == IF axis = 0 THEN <<0, 1>> ELSE <<1, 0>>
      t == transpose(gram, perm)
      r == reshape_balanced(self, t)
  IN  IF r.err # "" THEN r
      ELSE [err |-> "", val |-> transpose(SumAxis1(r.val, NCols(t)), perm)]

\* gram * np.expand_dims(self.prefactors, axis = (axis + 1) % 2), with numpy's
\* broadcasting of a dimension of size 1
BroadcastMul(gram, prefactors, axis) ==
  LET N == Len(prefactors)
      R == NRows(gram)
      C == NCols(gram)
  IN  IF axis = 0
      THEN IF R # N /\ R # 1 /\ N # 1
           THEN [err |-> "ValueError", val |-> <<>>]
           ELSE [err |-> "",
                 val |-> [i \in 1..(IF R = 1 THEN N ELSE R) |-> [j \in 1..C |->
                           QMul(gram[IF R = 1 THEN 1 ELSE i][j],
                                prefactors[IF N = 1 THEN 1 ELSE i])]]]
      ELSE IF C # N /\ C # 1 /\ N # 1
           THEN [err |-> "ValueError", val |-> <<>>]
           ELSE [err |-> "",
                 val |-> [i \in 1..R |-> [j \in 1..(IF C = 1 THEN N ELSE C) |->
                           QMul(gram[i][IF C = 1 THEN 1 ELSE j],
                                prefactors[IF N = 1 THEN 1 ELSE j])]]]

\* self.reduce_gram(gram, axis)
reduce_gram(self, gram, axis) ==
  LET m == BroadcastMul(MatAsType(gram, self.dtype), self.prefactors, axis)
  IN  IF m.err # "" THEN m
      ELSE IF self.is_simple THEN m
      ELSE reduce_balanced_ragged(self, m.val, axis)

\* inner() checking its arguments only after the Gram matrix is computed
inner_checking_late(self, Y, full) ==
  IF ~full /\ Y # None
  THEN [err |-> "ValueError", val |-> <<>>, kcalls |-> 1]
  ELSE IF ~full
  THEN LET r1 == reduce_gram(self, <<GramDiag(self.k, self.inspace_points)>>, 0)
           r2 == reduce_gram(self, r1.val, 1)
       IN  IF r1.err # "" THEN [err |-> r1.err, val |-> <<>>, kcalls |-> 1]
           ELSE [err |-> r2.err, val |-> r2.val, kcalls |-> 1]
  ELSE IF Y # None /\ self.k # Y[1].k
  THEN [err |-> "AssertionError", val |-> <<>>, kcalls |-> 0]
  ELSE LET Yv == IF Y # None THEN Y[1] ELSE self
           gram == MatAsType(Gram(self.k, self.inspace_points, Yv.inspace_points), "float")
           r1 == reduce_gram(self, gram, 0)
           r2 == reduce_gram(Yv, r1.val, 1)
       IN  IF r1.err # "" THEN [err |-> r1.err, val |-> <<>>, kcalls |-> 1]
           ELSE [err |-> r2.err, val |-> r2.val, kcalls |-> 1]

\* self.inner(Y, full): Y is None or Some(vector).  kcalls counts the calls of
\* the kernel made before the method returns or raises.
inner(self, Y, full) ==
  IF ~full /\ Y # None
  THEN [err |-> "ValueError", val |-> <<>>, kcalls |-> 0]
  ELSE IF ~full
  THEN LET r1 == reduce_gram(self, <<GramDiag(self.k, self.inspace_points)>>, 0)
           r2 == reduce_gram(self, r1.val, 1)
       IN  IF r1.err # "" THEN [err |-> r1.err, val |-> <<>>, kcalls |-> 1]
           ELSE [err |-> r2.err, val |-> r2.val, kcalls |-> 1]
  ELSE IF Y # None /\ self.k # Y[1].k
  THEN [err |-> "AssertionError", val |-> <<>>, kcalls |-> 0]
  ELSE LET Yv == IF Y # None THEN Y[1] ELSE self
           gram == MatAsType(Gram(self.k, self.inspace_points, Yv.inspace_points), "float")
           r1 == reduce_gram(self, gram, 0)
           r2 == reduce_gram(Yv, r1.val, 1)
       IN  IF r1.err # "" THEN [err |-> r1.err, val |-> <<>>, kcalls |-> 1]
           ELSE [err |-> r2.err, val |-> r2.val, kcalls |-> 1]

\* upd_pref / upd_pref.sum(1, keepdims = True) on the (groups, k, 1) array
DivideByGroupSum(x) ==
  [g \in 1..Len(x) |-> [r \in 1..Len(x[g]) |->
     <<QDiv(x[g][r][1], QSum([q \in 1..Len(x[g]) |-> x[g][q][1]]))>>]]

\* the (groups, k, 1) array reshaped to a 1-D array of the given length
ReshapeFlat(x, k) == [n \in 1..(Len(x) * k) |-> x[((n - 1) \div k) + 1][((n - 1) % k) + 1][1]]

\* self.__normalized_balanced__()
normalized_balanced(self) ==
  LET r == reshape_balanced(self, [i \in 1..Len(self.prefactors) |-> <<self.prefactors[i]>>])
  IN  IF r.err # "" THEN [err |-> r.err, obj |-> NoVec]
      ELSE updated(self, Arr(ReshapeFlat(DivideByGroupSum(r.val), self.points_per_split),
                             "float"))

\* self.normalized(): the constructor rebinds it for a balanced vector
normalized(self) ==
  IF self.is_simple
  THEN updated(self, Arr(Ones(Len(self.prefactors)), self.dtype))
  ELSE normalized_balanced(self)

\* np.squeeze of a (rows, 1) matrix: a 1-D array, or a 0-d scalar for one row
squeeze(m) == [shape |-> IF NRows(m) = 1 THEN <<>> ELSE <<NRows(m)>>,
               data |-> [i \in 1..NRows(m) |-> m[i][1]]]
keep(m) == [shape |-> <<NRows(m), NCols(m)>>, data |-> Flatten(m)]

\* self.get_mean_var(keepdims)
get_mean_var(self, keepdims) ==
  LET X == self.inspace_points
      m == reduce_gram(self, X, 0)
      s == reduce_gram(self, MatSquareElems(X), 0)
  IN  IF m.err # "" THEN [err |-> m.err, mean |-> NoVal, var |-> NoVal]
      ELSE LET mean == m.val
               voe == [i \in 1..NRows(mean) |-> [j \in 1..NCols(mean) |->
                         QSub(s.val[i][j], QMul(mean[i][j], mean[i][j]))]]
               var == [i \in 1..NRows(mean) |-> [j \in 1..NCols(mean) |->
                         QAdd(KernelVar(self.k), voe[i][j])]]
           IN  IF keepdims
               THEN [err |-> "", mean |-> keep(mean), var |-> keep(var)]
               ELSE [err |-> "", mean |-> squeeze(mean), var |-> squeeze(var)]

\* An index: the integer i, [kind |-> "int", i |-> i, j |-> 0], or the slice
\* i:j, [kind |-> "slice", i |-> i, j |-> j].
\* a[index] for an array of rows: an integer index takes one row and drops a
\* dimension, a slice keeps the dimensions.
Subscript(a, ndim, index) ==
  IF index.kind = "int"
  THEN [ndim |-> ndim - 1, a |-> <<a[index.i + 1]>>]
  ELSE [ndim |-> ndim, a |-> SubSeq(a, index.i + 1, index.j)]

\* The constructor called on an array of points of ndim dimensions:
\* assert(len(self.inspace_points.shape) == 2) comes first.
FiniteVecOfArray(kern, points, prefactors, points_per_split) ==
  IF points.ndim # 2
  THEN [err |-> "AssertionError", obj |-> NoVec]
  ELSE FiniteVec(kern, points.a, prefactors, points_per_split)

\* FiniteVec.__getitem__(self, index): what self[index] runs, for a simple and
\* for a balanced vector alike (the subscript looks __getitem__ up on the type,
\* so the constructor's rebinding on the instance is not seen).
getitem(self, index) ==
  FiniteVecOfArray(self.k,
                   Subscript(self.inspace_points, 2, index),
                   Some([a |-> Subscript(self.prefactors, 1, index).a,
                         dtype |-> self.dtype,
                         ndim |-> Subscript(self.prefactors, 1, index).ndim]),
                   None)

\* self.__getitem_balanced__(index): start, stop = index * k, index + 1 * k, and
\* inspace_points[start, stop] is the single entry of row start and column stop,
\* a 0-d array.  Column stop >= 1 is outside the one column of the points: an
\* IndexError of a numpy array, while a jax array clamps the index.
getitem_balanced(self, index, lib) ==
  LET start == index.i * self.points_per_split
      stop == index.i + (1 * self.points_per_split)
      N == Len(self.inspace_points)
      row == IF start >= N THEN N ELSE start + 1
  IN  IF lib = "numpy" /\ (start >= N \/ stop >= 1)
      THEN [err |-> "IndexError", obj |-> NoVec]
      ELSE FiniteVecOfArray(self.k,
                            [ndim |-> 0, a |-> <<self.inspace_points[row]>>],
                            Some([a |-> <<self.prefactors[row]>>, dtype |-> self.dtype,
                                  ndim |-> 0]),
                            Some(self.points_per_split))

\* self.sum()
sum(self) ==
  FiniteVec(self.k, self.inspace_points,
            Some(Arr(self.prefactors, self.dtype)), None)

(***************************************************************************)
(* The state.  vec is the vector the client holds (NoVec before a          *)
(* construction succeeds); ops is the heap of operator objects; ret is the *)
(* last call: its method, receiver, argument and outcome.  A vector is     *)
(* never modified after its construction, so a run is one expression: the  *)
(* construction of vec, then a method called on vec, then methods called   *)
(* on the vector the last call returned (the chained call                  *)
(* v.normalized().f(): via names the method that returned the receiver,    *)
(* depth counts the calls of the chain).                                   *)
(***************************************************************************)
Ret(op, via, depth, recv, arg, err, val, kcalls) ==
  [op |-> op, via |-> via, depth |-> depth, recv |-> recv, arg |-> arg,
   err |-> err, val |-> val, kcalls |-> kcalls]

NoCall == Ret("", "", 0, NoVec, NoVal, "", NoVal, 0)

\* arrays of points: 0, 1, 0, 1, ... and 0, 1, 2, ...
PointArrays(N) == {[i \in 1..N |-> <<QInt((i - 1) % m)>>] : m \in {2, MaxPoints}}
\* arrays of prefactors of length N, with their dtype
PrefArrays(N) == {Arr(a, d) : a \in [1..N -> {QInt(p) : p \in PrefactorValues}],
                                d \in Dtypes}
\* the prefactors argument of the constructor: None, an array of the length of
\* the points, or an array one entry longer
PrefInputs(N) == {None} \cup {Some(p) : p \in PrefArrays(N)}
                        \cup {Some(Arr(Ones(N + 1), "float"))}
\* the points_per_split argument
SplitInputs == {None} \cup {Some(k) : k \in 0..MaxPoints}

Receivers == {"vec", "ret"}
CanReceive(c) ==
  IF c = "vec" THEN vec # NoVec /\ ret.depth = 0
  ELSE ret.err = "" /\ ret.op = "normalized" /\ ret.depth >= 1 /\ ret.depth < MaxChain
Receiver(c) == IF c = "vec" THEN vec ELSE ret.val
Via(c) == IF c = "vec" THEN "vec" ELSE ret.op
Depth(c) == IF c = "vec" THEN 1 ELSE ret.depth + 1

Init == vec = NoVec /\ ops = <<>> /\ ret = NoCall

\* vec = FiniteVec(kern, inspace_points, prefactors, points_per_split)
New ==
  /\ vec = NoVec /\ ret = NoCall
  /\ \E kern \in Kernels, N \in 1..MaxPoints, split \in SplitInputs :
       \E pts \in PointArrays(N), pref \in PrefInputs(N) :
          LET r == FiniteVec(kern, pts, pref, split)
          IN  /\ vec' = r.obj
              /\ ret' = Ret("__init__", "", 0, NoVec,
                            [kern |-> kern, inspace_points |-> pts,
                             prefactors |-> pref, points_per_split |-> split],
                            r.err, r.obj, 0)
  /\ UNCHANGED ops

\* vec = FiniteVec.construct_RKHS_Elem(kern, inspace_points, prefactors)
NewElem ==
  /\ vec = NoVec /\ ret = NoCall
  /\ \E kern \in Kernels, N \in 1..MaxPoints :
       \E pts \in PointArrays(N), pref \in PrefInputs(N) :
          LET r == construct_RKHS_Elem(kern, pts, pref)
          IN  /\ vec' = r.obj
              /\ ret' = Ret("construct_RKHS_Elem", "", 0, NoVec,
                            [kern |-> kern, inspace_points |-> pts,
                             prefactors |-> pref, points_per_split |-> None],
                            r.err, r.obj, 0)
  /\ UNCHANGED ops

\* len(v)
LenCall(c) ==
  /\ CanReceive(c)
  /\ ret' = Ret("__len__", Via(c), Depth(c), Receiver(c), NoVal, "",
                [n |-> Receiver(c).len], 0)
  /\ UNCHANGED <<vec, ops>>

\* v.normalized()
Normalized(c) ==
  /\ CanReceive(c)
  /\ LET r == normalized(Receiver(c))
     IN  ret' = Ret("normalized", Via(c), Depth(c), Receiver(c), NoVal, r.err, r.obj, 0)
  /\ UNCHANGED <<vec, ops>>

\* v.updated(prefactors)
Updated(c) ==
  /\ CanReceive(c)
  /\ \E p \in PrefArrays(Len(Receiver(c).prefactors))
               \cup {Arr(Ones(n), "float") :
                        n \in {Len(Receiver(c).prefactors) - 1,
                               Len(Receiver(c).prefactors) + 1}} :
       LET r == updated(Receiver(c), p)
       IN  ret' = Ret("updated", Via(c), Depth(c), Receiver(c), p, r.err, r.obj, 0)
  /\ UNCHANGED <<vec, ops>>

\* v.get_mean_var(keepdims)
GetMeanVar(c) ==
  /\ CanReceive(c)
  /\ \E keepdims \in BOOLEAN :
       LET r == get_mean_var(Receiver(c), keepdims)
       IN  ret' = Ret("get_mean_var", Via(c), Depth(c), Receiver(c),
                      [keepdims |-> keepdims], r.err,
                      [mean |-> r.mean, var |-> r.var], 0)
  /\ UNCHANGED <<vec, ops>>

Indices(N) == {[kind |-> "int", i |-> i, j |-> 0] : i \in 0..(N - 1)}
              \cup {s \in {[kind |-> "slice", i |-> i, j |-> j] : i \in 0..(N - 1), j \in 1..N} :
                      s.i < s.j}

\* v[index]
GetItem(c) ==
  /\ CanReceive(c)
  /\ \E index \in Indices(Len(Receiver(c).inspace_points)) :
       LET r == getitem(Receiver(c), index)
       IN  ret' = Ret("getitem", Via(c), Depth(c), Receiver(c), index, r.err, r.obj, 0)
  /\ UNCHANGED <<vec, ops>>

\* v.__getitem__(index): the attribute the constructor bound on the instance
GetItemAttr(c) ==
  /\ CanReceive(c)
  /\ \E index \in Indices(Len(Receiver(c).inspace_points)), lib \in {"numpy", "jax"} :
       /\ index.kind = "int"
       /\ LET r == IF Receiver(c).is_simple THEN getitem(Receiver(c), index)
                   ELSE getitem_balanced(Receiver(c), index, lib)
          IN  ret' = Ret("__getitem__", Via(c), Depth(c), Receiver(c), index, r.err, r.obj, 0)
  /\ UNCHANGED <<vec, ops>>

\* v.sum()
Sum(c) ==
  /\ CanReceive(c)
  /\ LET r == sum(Receiver(c))
     IN  ret' = Ret("sum", Via(c), Depth(c), Receiver(c), NoVal, r.err, r.obj, 0)
  /\ UNCHANGED <<vec, ops>>

Next ==
  \/ New
  \/ NewElem
  \/ \E c \in Receivers : LenCall(c) \/ Normalized(c) \/ GetMeanVar(c)
  \/ Updated("vec")
  \/ GetItem("vec")
  \/ GetItemAttr("vec")
  \/ Sum("vec")

Spec == Init /\ [][Next]_vars

(***************************************************************************)
(* The inner product with a second vector.                                 *)
(***************************************************************************)
\* the second operand of inner: a constructed vector of at most MaxOther points
OtherPointArrays(N) == {[i \in 1..N |-> <<QInt(i)>>]}
\* its prefactors: 2, 1, 2, ... of either dtype
OtherPrefArrays(N) == {Arr([i \in 1..N |-> QInt(2 - ((i - 1) % 2))], d) : d \in Dtypes}
OtherVecs ==
  {r.obj : r \in {x \in {FiniteVec(kern, pts, Some(pref), split) :
                           kern \in Kernels,
                           pts \in UNION {OtherPointArrays(N) : N \in 1..MaxOther},
                           pref \in UNION {OtherPrefArrays(N) : N \in 1..MaxOther},
                           split \in {None} \cup {Some(k) : k \in 1..MaxOther}} :
                    x.err = ""}}

\* inner(v, Y, full)
Inner(c) ==
  /\ CanReceive(c)
  /\ \E Y \in {None} \cup {Some(y) : y \in OtherVecs}, full \in BOOLEAN :
       LET r == inner(Receiver(c), Y, full)
       IN  ret' = Ret("inner", Via(c), Depth(c), Receiver(c),
                      [Y |-> Y, full |-> full], r.err, [mat |-> r.val], r.kcalls)
  /\ UNCHANGED <<vec, ops>>

NextInner == New \/ NewElem \/ Inner("vec")

SpecInner == Init /\ [][NextInner]_vars

(***************************************************************************)
(* Operators (jaxrk/rkhs/operator.py).  An operator object is a record of  *)
(* the heap ops; its identity is its position.  inv is the position of the *)
(* cached inverse, 0 for None.  made records how the object came to be.    *)
(***************************************************************************)
RECURSIVE Det(_)
Minor(m, i, j) ==
  [r \in 1..(Len(m) - 1) |-> [c \in 1..(Len(m) - 1) |->
     m[IF r < i THEN r ELSE r + 1][IF c < j THEN c ELSE c + 1]]]
Det(m) ==
  IF Len(m) = 0 THEN QInt(1)
  ELSE QSum([j \in 1..Len(m) |->
               QMul(QMul(QInt(IF j % 2 = 1 THEN 1 ELSE -1), m[1][j]), Det(Minor(m, 1, j)))])

\* np.linalg.inv(m) of a nonsingular square matrix
MatInv(m) ==
  [i \in 1..Len(m) |-> [j \in 1..Len(m) |->
     QDiv(QMul(QInt(IF (i + j) % 2 = 0 THEN 1 ELSE -1), Det(Minor(m, j, i))), Det(m))]]

\* a @ b, which raises on mismatched shapes
MatMulE(a, b) ==
  IF a.err # "" THEN a
  ELSE IF b.err # "" THEN b
  ELSE IF NCols(a.val) # NRows(b.val) THEN [err |-> "TypeError", val |-> <<>>]
  ELSE [err |-> "", val |-> MatMul(a.val, b.val)]

Ok(m) == [err |-> "", val |-> m]

NoOp == [none |-> TRUE]

\* FiniteOp(inp_feat, outp_feat, matr)
FiniteOp(inp_feat, outp_feat, matr, dtype) ==
  [cls |-> "FiniteOp", inp_feat |-> inp_feat, outp_feat |-> outp_feat,
   matr |-> matr, dtype |-> dtype, regul |-> QInt(0), inv |-> 0]

\* CovOp(inp_feat, regul): the object, or the exception the constructor raises
\* u is inp_feat.updated(np.ones(len(inp_feat)))
CovOpOver(inp_feat, regul, u) ==
  IF u.err # "" THEN [err |-> u.err, obj |-> NoOp]
  ELSE [err |-> "",
        obj |-> [cls |-> "CovOp", inp_feat |-> u.obj, outp_feat |-> u.obj,
                 matr |-> diag(inp_feat.prefactors), dtype |-> inp_feat.dtype,
                 regul |-> regul, inv |-> 0]]
CovOp(inp_feat, regul) ==
  CovOpOver(inp_feat, regul, updated(inp_feat, Arr(Ones(inp_feat.len), inp_feat.dtype)))

\* The matrix CovOp.inv computes for the inverse:
\* matr**2 @ inv_gram @ inv_gram, inv_gram = inv(inner(inp_feat) + regul * eye)
\* the product a @ b @ b
MatMulTwice(a, b) == MatMul(MatMul(a, b), b)
\* g is inner(self.inp_feat)
InverseMatrOf(self, g) ==
  IF g.err # "" THEN [err |-> g.err, val |-> <<>>]
  ELSE Ok(MatMulTwice(MatSquareElems(self.matr),
                      MatInv(MatAdd(g.val, MatScale(self.regul, eye(self.inp_feat.len))))))
InverseMatr(self) == InverseMatrOf(self, inner(self.inp_feat, None, TRUE))

\* self.inv() of the operator at position i: the heap after the call and the
\* position returned.  On the first call the inverse is constructed, given
\* its matrix and linked back to self.
\* the first call without the link from the inverse back to self
inv_first_unlinked(heap, i, matr, new) ==
  IF matr.err # "" THEN [err |-> matr.err, heap |-> heap, ref |-> 0]
  ELSE IF new.err # "" THEN [err |-> new.err, heap |-> heap, ref |-> 0]
  ELSE [err |-> "",
        heap |-> Append([heap EXCEPT ![i].inv = Len(heap) + 1],
                        [new.obj EXCEPT !.matr = matr.val, !.dtype = "float"]),
        ref |-> Len(heap) + 1]

\* the first call: matr is the matrix computed for the inverse, new is
\* CovOp(self.inp_feat, self.regul)
inv_first(heap, i, matr, new) ==
  IF matr.err # "" THEN [err |-> matr.err, heap |-> heap, ref |-> 0]
  ELSE IF new.err # "" THEN [err |-> new.err, heap |-> heap, ref |-> 0]
  ELSE [err |-> "",
        heap |-> Append([heap EXCEPT ![i].inv = Len(heap) + 1],
                        [new.obj EXCEPT !.matr = matr.val, !.dtype = "float", !.inv = i]),
        ref |-> Len(heap) + 1]
inv(heap, i) ==
  IF heap[i].inv = 0
  THEN inv_first(heap, i, InverseMatr(heap[i]), CovOp(heap[i].inp_feat, heap[i].regul))
  ELSE [err |-> "", heap |-> heap, ref |-> heap[i].inv]

\* np.squeeze of a 2-D array with its dtype, as an array of prefactors
SqueezeArr(m, dtype) ==
  IF NRows(m) = 1 /\ NCols(m) = 1 THEN [a |-> <<m[1][1]>>, dtype |-> dtype, ndim |-> 0]
  ELSE IF NCols(m) = 1 THEN Arr([i \in 1..NRows(m) |-> m[i][1]], dtype)
  ELSE IF NRows(m) = 1 THEN Arr(m[1], dtype)
  ELSE [a |-> Flatten(m), dtype |-> dtype, ndim |-> 2]

\* np.tile(points, (n, 1))
Tile(points, n) ==
  [i \in 1..(n * Len(points)) |-> points[((i - 1) % Len(points)) + 1]]

\* np.hstack(pref.T): the columns of pref one after the other
HstackT(pref) ==
  [n \in 1..(NRows(pref) * NCols(pref)) |->
     pref[((n - 1) % NRows(pref)) + 1][((n - 1) \div NRows(pref)) + 1]]

\* multiply(A, B) for an operator B: [err, obj]
\* m is A.matr @ inner(A.inp_feat, B.outp_feat) @ B.matr
multiply_op_of(A, B, m) ==
  IF m.err # "" THEN [err |-> m.err, obj |-> NoOp]
  ELSE [err |-> "",
        obj |-> FiniteOp(B.inp_feat, A.outp_feat, m.val,
                         promote(promote(A.dtype, B.outp_feat.dtype), B.dtype))]
\* the composition taking the Gram matrix between the output bases
multiply_op_over_outputs(A, B) ==
  multiply_op_of(A, B, MatMulE(MatMulE(Ok(A.matr),
                                       inner(A.outp_feat, Some(B.outp_feat), TRUE)),
                               Ok(B.matr)))

multiply_op(A, B) ==
  multiply_op_of(A, B, MatMulE(MatMulE(Ok(A.matr),
                                       inner(A.inp_feat, Some(B.outp_feat), TRUE)),
                               Ok(B.matr)))

\* multiply(A, B) for a vector B: [err, obj]
\* pref is A.matr @ inner(A.inp_feat, B).  For len(B) = 1 the result is
\* construct_RKHS_Elem(k, points, squeeze(pref)), which is FiniteVec with
\* points_per_split = len(points)
multiply_vec_of(A, B, pref, dtype) ==
  IF pref.err # "" THEN [err |-> pref.err, obj |-> NoVec]
  ELSE FiniteVec(A.outp_feat.k,
                 IF B.len = 1 THEN A.outp_feat.inspace_points
                 ELSE Tile(A.outp_feat.inspace_points, NCols(pref.val)),
                 Some(IF B.len = 1 THEN SqueezeArr(pref.val, dtype)
                      ELSE Arr(HstackT(pref.val), dtype)),
                 Some(IF B.len = 1 THEN Len(A.outp_feat.inspace_points)
                      ELSE NRows(pref.val)))
multiply_vec(A, B) ==
  multiply_vec_of(A, B, MatMulE(Ok(A.matr), inner(A.inp_feat, Some(B), TRUE)),
                  promote(A.dtype, B.dtype))

\* the vectors operators are built over: one or two points, float
\* prefactors 2, 1
BasisSizes == {1, 2}
BasisVecs ==
  {r.obj : r \in {x \in {FiniteVec(kern, pts, Some(pref), split) :
                           kern \in Kernels,
                           pts \in UNION {PointArrays(N) : N \in BasisSizes},
                           pref \in UNION {{q \in OtherPrefArrays(N) : q.dtype = "float"} :
                                             N \in BasisSizes},
                           split \in {None, Some(2)}} :
                    x.err = ""}}
\* the regularisation constants passed to CovOp
Reguls == {Q(1, 2)}

\* the vectors operators are applied to
OperandVecs == {B \in OtherVecs : B.dtype = "float"}

\* an operand: a position of the heap, or 0 for the product of two operators
\* of the heap that the last multiply returned
IsOperand(x) ==
  IF x = 0 THEN ret.op = "multiply" /\ ret.err = "" /\ ret.depth = 1
  ELSE x \in 1..Len(ops)
Operand(x) == IF x = 0 THEN ret.val ELSE ops[x]

\* the run is still constructing and inverting operators: nothing has
\* raised and no product has been formed
Constructing == ret.err = "" /\ ret.op \in {"", "CovOp", "inv"}

InitOp == vec = NoVec /\ ops = <<>> /\ ret = NoCall

\* op = CovOp(inp_feat, regul)
NewCovOp ==
  /\ Constructing
  /\ Len(ops) < MaxOps
  /\ \E v \in BasisVecs, regul \in Reguls :
       LET r == CovOp(v, regul)
       IN  /\ ops' = IF r.err = "" THEN Append(ops, r.obj) ELSE ops
           /\ ret' = Ret("CovOp", "", 0, NoVec, [inp_feat |-> v, regul |-> regul],
                         r.err, [ref |-> IF r.err = "" THEN Len(ops) + 1 ELSE 0], 0)
  /\ UNCHANGED vec

\* ops[i].inv()
Inv ==
  /\ Constructing
  /\ \E i \in 1..Len(ops) :
       /\ ops[i].cls = "CovOp"
       /\ ops[i].inv = 0 => Len(ops) < MaxOps
       /\ LET r == inv(ops, i)
          IN  /\ ops' = r.heap
              /\ ret' = Ret("inv", "", 0, NoVec, [self |-> i], r.err, [ref |-> r.ref], 1)
  /\ UNCHANGED vec

\* multiply(A, B) of two operators
Multiply ==
  /\ \E x \in 0..Len(ops), y \in 0..Len(ops) :
       /\ IsOperand(x) /\ IsOperand(y)
       /\ Constructing \/ x = 0 \/ y = 0
       /\ LET r == multiply_op(Operand(x), Operand(y))
          IN  ret' = Ret("multiply", IF x = 0 \/ y = 0 THEN "multiply" ELSE "",
                         IF x = 0 \/ y = 0 THEN ret.depth + 1 ELSE 1, NoVec,
                         [A |-> x, B |-> y,
                          prev |-> IF x = 0 \/ y = 0 THEN <<ret.arg.A, ret.arg.B>> ELSE <<>>],
                         r.err, r.obj, 0)
  /\ UNCHANGED <<vec, ops>>

\* multiply(A, B) of an operator and a vector
MultiplyVec ==
  /\ Constructing
  /\ \E x \in 1..Len(ops), B \in OperandVecs :
       LET r == multiply_vec(ops[x], B)
       IN  ret' = Ret("multiply_vec", "", 1, NoVec, [A |-> x, B |-> B], r.err, r.obj, 0)
  /\ UNCHANGED <<vec, ops>>

NextOp == NewCovOp \/ Inv \/ Multiply \/ MultiplyVec

SpecOp == InitOp /\ [][NextOp]_vars

(***************************************************************************)
(* Vocabulary of the properties.                                           *)
(***************************************************************************)
NumPoints(v) == Len(v.inspace_points)
GroupSize(v) == IF v.is_simple THEN 1 ELSE v.points_per_split
\* the points are split evenly into groups of the group size
EvenlySplit(v) == NumPoints(v) % GroupSize(v) = 0
NumGroups(v) == NumPoints(v) \div GroupSize(v)
\* the positions of the points of group g, g = 1, 2, ...
Group(v, g) == (((g - 1) * GroupSize(v)) + 1)..(g * GroupSize(v))
GroupIndex(v, i) == ((i - 1) \div GroupSize(v)) + 1

RECURSIVE QSumOver(_, _)
\* the sum of f[i] over the finite set S of indices
QSumOver(f, S) ==
  IF S = {} THEN QInt(0)
  ELSE LET i == CHOOSE x \in S : TRUE IN QAdd(f[i], QSumOver(f, S \ {i}))

GroupSum(v, g) == QSumOver(v.prefactors, Group(v, g))
\* the prefactors normalized within each group
Weights(v) == [i \in 1..NumPoints(v) |-> QDiv(v.prefactors[i], GroupSum(v, GroupIndex(v, i)))]
Positive(v) == \A i \in 1..NumPoints(v) : v.prefactors[i][1] > 0
Scaled(v, c) == [v EXCEPT !.prefactors = [i \in 1..NumPoints(v) |-> QMul(QInt(c), v.prefactors[i])]]

NormalizedAsExpected ==
  /\ ret.err = ""
  /\ ret.val.k = ret.recv.k
  /\ ret.val.inspace_points = ret.recv.inspace_points
  /\ ret.val.is_simple = ret.recv.is_simple
  /\ ret.val.points_per_split = ret.recv.points_per_split
  /\ ret.val.len = ret.recv.len
  /\ \A g \in 1..NumGroups(ret.val) : GroupSum(ret.val, g) = QInt(1)
  /\ ret.recv.is_simple => ret.val.prefactors = Ones(NumPoints(ret.recv))
  /\ ~ret.recv.is_simple => ret.val.prefactors = Weights(ret.recv)
  /\ ret.via = "normalized" => ret.val.prefactors = ret.recv.prefactors

\* C2: for a vector v with positive prefactors, v.normalized() keeps v's
\* points, kernel and grouping, its prefactors sum to 1 within every group
\* (balanced: each prefactor divided by the sum of its group; simple: every
\* prefactor is 1), and normalizing a normalized vector leaves the prefactors
\* as they are.
C2_Normalized ==
  (ret.op = "normalized" /\ Positive(ret.recv)) => NormalizedAsExpected

\* The same for the vectors whose points split evenly into groups.
NormalizedOfEvenlySplit ==
  (ret.op = "normalized" /\ Positive(ret.recv) /\ EvenlySplit(ret.recv)) =>
    NormalizedAsExpected

\* a balanced vector of two groups of two points has been normalized twice
NormalizedTwice ==
  /\ ret.op = "normalized" /\ ret.via = "normalized" /\ ret.err = ""
  /\ ~ret.recv.is_simple /\ ret.recv.points_per_split = 2 /\ ret.recv.len = 2
  /\ vec.prefactors # ret.val.prefactors
  /\ ret.val.prefactors[1] # ret.val.prefactors[3]

ExpectedMean(v) ==
  [g \in 1..NumGroups(v) |->
     QSumOver([i \in 1..NumPoints(v) |-> QMul(Weights(v)[i], v.inspace_points[i][1])],
              Group(v, g))]
ExpectedVar(v) ==
  [g \in 1..NumGroups(v) |->
     QSub(QAdd(KernelVar(v.k),
               QSumOver([i \in 1..NumPoints(v) |->
                           QMul(Weights(v)[i],
                                QMul(v.inspace_points[i][1], v.inspace_points[i][1]))],
                        Group(v, g))),
          QMul(ExpectedMean(v)[g], ExpectedMean(v)[g]))]

MeanVarAsExpected ==
  /\ ret.err = ""
  /\ ret.val.mean.data = ExpectedMean(vec)
  /\ ret.val.var.data = ExpectedVar(vec)
  /\ \A c \in 2..3 :
       LET r == get_mean_var(normalized(Scaled(vec, c)).obj, ret.arg.keepdims)
       IN  r.mean = ret.val.mean /\ r.var = ret.val.var

\* C3: for a balanced vector v with positive prefactors,
\* v.normalized().get_mean_var() is evaluated without an exception and
\* returns per group the mean sum_i w_i x_i and the variance
\* kernel.var + sum_i w_i x_i^2 - mean^2, w the prefactors normalized within
\* the group; the result is the same for v with all its prefactors multiplied
\* by a positive constant.
C3_MeanVar ==
  /\ (/\ ret.op = "normalized" /\ ret.via = "vec"
      /\ ~vec.is_simple /\ Positive(vec)) => ret.err = ""
  /\ (/\ ret.op = "get_mean_var" /\ ret.via = "normalized"
      /\ ~vec.is_simple /\ Positive(vec)) => MeanVarAsExpected

\* The same for the balanced vectors whose points split evenly into groups.
MeanVarOfEvenlySplit ==
  /\ (/\ ret.op = "normalized" /\ ret.via = "vec"
      /\ ~vec.is_simple /\ Positive(vec) /\ EvenlySplit(vec)) => ret.err = ""
  /\ (/\ ret.op = "get_mean_var" /\ ret.via = "normalized"
      /\ ~vec.is_simple /\ Positive(vec) /\ EvenlySplit(vec)) => MeanVarAsExpected

\* points [[0],[1],[0],[1]] with prefactors normalizing to [1/2,1/2,1/3,2/3]
\* in groups of 2: the means are [1/2, 2/3]
MeanVarExample ==
  /\ ret.op = "get_mean_var" /\ ret.via = "normalized" /\ ret.err = ""
  /\ vec.inspace_points = <<<<QInt(0)>>, <<QInt(1)>>, <<QInt(0)>>, <<QInt(1)>>>>
  /\ vec.prefactors = <<QInt(2), QInt(2), QInt(1), QInt(2)>>
  /\ ~vec.is_simple /\ vec.points_per_split = 2
  /\ ret.recv.prefactors = <<Q(1, 2), Q(1, 2), Q(1, 3), Q(2, 3)>>
  /\ ret.val.mean.data = <<Q(1, 2), Q(2, 3)>>
  /\ ret.val.var.data = <<QSub(QAdd(KernelVar(vec.k), Q(1, 2)), Q(1, 4)),
                          QSub(QAdd(KernelVar(vec.k), Q(2, 3)), Q(4, 9))>>

\* C6: a constructed balanced vector has a number of points that is a
\* multiple of points_per_split and the length points / points_per_split, a
\* simple one the length of its points; a balanced construction whose number
\* of points is not a multiple of the group size is rejected.
C6_Construction ==
  (ret.op = "__init__") =>
    LET N == Len(ret.arg.inspace_points)
        split == ret.arg.points_per_split
    IN  /\ (ret.err = "" /\ ~ret.val.is_simple) =>
             /\ N % ret.val.points_per_split = 0
             /\ ret.val.len * ret.val.points_per_split = N
        /\ (ret.err = "" /\ ret.val.is_simple) => ret.val.len = N
        /\ (split # None /\ split[1] # 0 /\ N % split[1] # 0) => ret.err # ""

\* C7: v.updated(p) with len(p) the number of points returns a vector with
\* v's points, kernel, grouping mode, group size and length and the prefactors
\* p, and leaves v as it was; with another len(p) it fails and returns no vector.
C7_Updated ==
  (ret.op = "updated") =>
    /\ vec = ret.recv
    /\ IF Len(ret.arg.a) = NumPoints(ret.recv)
       THEN /\ ret.err = ""
            /\ ret.val.k = ret.recv.k
            /\ ret.val.inspace_points = ret.recv.inspace_points
            /\ ret.val.is_simple = ret.recv.is_simple
            /\ ret.val.points_per_split = ret.recv.points_per_split
            /\ ret.val.len = ret.recv.len
            /\ ret.val.prefactors = ret.arg.a
            /\ ret.val.dtype = ret.arg.dtype
       ELSE ret.err # "" /\ ret.val = NoVec

\* a balanced vector updated with other prefactors
C7_Witness ==
  /\ ret.op = "updated" /\ ret.err = ""
  /\ ~ret.recv.is_simple /\ ret.recv.points_per_split = 2 /\ ret.recv.len = 2
  /\ ret.val.prefactors # ret.recv.prefactors

\* C10: v[i] of a balanced vector with group size k, i a group index, is the
\* vector of the k points and prefactors at positions i*k .. (i+1)*k - 1; v[i]
\* of a simple vector is the vector of the point and prefactor at index i.
C10_GetItem ==
  (/\ ret.op \in {"getitem", "__getitem__"} /\ ret.arg.kind = "int"
   /\ EvenlySplit(ret.recv) /\ ret.arg.i < ret.recv.len) =>
    /\ ret.err = ""
    /\ ret.val.inspace_points =
         [n \in 1..GroupSize(ret.recv) |->
            ret.recv.inspace_points[(ret.arg.i * GroupSize(ret.recv)) + n]]
    /\ ret.val.prefactors =
         [n \in 1..GroupSize(ret.recv) |->
            ret.recv.prefactors[(ret.arg.i * GroupSize(ret.recv)) + n]]

\* the second vector of the last inner call (the receiver when Y is None)
InnerY == IF ret.arg.Y = None THEN ret.recv ELSE ret.arg.Y[1]

\* sum over a in group i of X and b in group j of Y of X.p[a] * Y.p[b] * K(x_a, y_b)
ExpectedInner(X, Y, i, j) ==
  QSumOver([a \in 1..NumPoints(X) |->
              QSumOver([b \in 1..NumPoints(Y) |->
                          QMul(QMul(X.prefactors[a], Y.prefactors[b]),
                               KernelValue(X.k, X.inspace_points[a], Y.inspace_points[b]))],
                       Group(Y, j))],
           Group(X, i))

InnerAsExpected(X, Y) ==
  /\ ret.err = ""
  /\ NRows(ret.val.mat) = X.len
  /\ \A i \in 1..X.len :
       /\ Len(ret.val.mat[i]) = Y.len
       /\ \A j \in 1..Y.len : ret.val.mat[i][j] = ExpectedInner(X, Y, i, j)

\* C1: for vectors X and Y of one kernel, each simple or balanced, inner(X, Y)
\* has the shape len(X) x len(Y) and its entry [i, j] is the sum over the
\* points a of group i of X and b of group j of Y of
\* X.prefactors[a] * Y.prefactors[b] * K(x_a, y_b).
C1_Inner ==
  (/\ ret.op = "inner" /\ ret.arg.full
   /\ ret.recv.k = InnerY.k /\ EvenlySplit(ret.recv) /\ EvenlySplit(InnerY)) =>
    InnerAsExpected(ret.recv, InnerY)

\* The same for vectors whose prefactors are floating-point arrays, for which
\* the cast of the Gram matrix to the dtype of the prefactors changes nothing.
InnerOfFloatVectors ==
  (/\ ret.op = "inner" /\ ret.arg.full
   /\ ret.recv.k = InnerY.k /\ EvenlySplit(ret.recv) /\ EvenlySplit(InnerY)
   /\ ret.recv.dtype = "float" /\ InnerY.dtype = "float") =>
    InnerAsExpected(ret.recv, InnerY)

\* C5: inner with full = False and a second vector fails with the
\* ambiguous-inputs error before the kernel is called, and leaves the vectors
\* as they were.
C5_AmbiguousInputs ==
  (ret.op = "inner" /\ ~ret.arg.full /\ ret.arg.Y # None) =>
    /\ ret.err = "ValueError"
    /\ ret.kcalls = 0
    /\ ret.val.mat = <<>>
    /\ vec = ret.recv

\* a diagonal-only inner product asked with a second vector of the same kernel
C5_Witness ==
  /\ ret.op = "inner" /\ ~ret.arg.full /\ ret.arg.Y # None
  /\ ret.arg.Y[1].k = ret.recv.k
  /\ ret.err = "ValueError"

(***************************************************************************)
(* Properties of the operators.                                            *)
(***************************************************************************)
\* the operators linked to position i by inverse caches, i included
RECURSIVE Linked(_, _, _)
Linked(heap, S, n) ==
  IF n = 0 THEN S
  ELSE Linked(heap, S \cup ({heap[i].inv : i \in S} \ {0}), n - 1)
Cycle(heap, i) == Linked(heap, {i}, Len(heap))

\* C4: over any sequence of inv() calls on a CovOp and on the operators the
\* calls return, the inverse cache of an operator is written at most once, a
\* call on an operator whose cache is set returns the cached object and
\* creates nothing, every call returns the object in the cache, the inverse
\* of the inverse of an operator is the operator itself with the coefficient
\* matrix it always had, and the operators linked by the caches are at most
\* two.
C4_InverseCache ==
  [][/\ \A i \in 1..Len(ops) :
          /\ i <= Len(ops')
          /\ ops[i].inv # 0 => ops'[i].inv = ops[i].inv
          /\ ops'[i].matr = ops[i].matr
          /\ ops'[i].inp_feat = ops[i].inp_feat
     /\ ret'.op = "inv" =>
          /\ ret'.err = ""
          /\ ret'.val.ref = ops'[ret'.arg.self].inv
          /\ ret'.val.ref # 0
          /\ ops[ret'.arg.self].inv # 0 => ops' = ops
     /\ \A i \in 1..Len(ops') :
          /\ ops'[i].inv # 0 => ops'[ops'[i].inv].inv = i /\ ops'[i].inv # i
          /\ Cardinality(Cycle(ops', i)) <= 2]_vars

\* op.inv().inv() has been called: the call on the inverse returned op
C4_Witness ==
  /\ ret.op = "inv" /\ ret.err = ""
  /\ ret.val.ref < ret.arg.self
  /\ ops[ret.arg.self].inv = ret.val.ref
  /\ ops[ret.val.ref].inv = ret.arg.self
  /\ ops[ret.val.ref].matr = diag(<<QInt(2), QInt(1)>>)
  /\ ops[ret.arg.self].matr # ops[ret.val.ref].matr

\* the product matrix A.matr @ inner(A.inp_feat, B)
ProductMatr(A, B) == MatMul(A.matr, inner(A.inp_feat, Some(B), TRUE).val)

MultiplyVecAsExpected(A, B) ==
  /\ ret.err = ""
  /\ ret.val.k = A.outp_feat.k
  /\ ret.val.len = B.len
  /\ ~ret.val.is_simple
  /\ ret.val.points_per_split = NumPoints(A.outp_feat)
  /\ NumPoints(ret.val) = B.len * NumPoints(A.outp_feat)
  /\ \A j \in 1..B.len : \A i \in 1..NumPoints(A.outp_feat) :
       /\ ret.val.inspace_points[((j - 1) * NumPoints(A.outp_feat)) + i]
            = A.outp_feat.inspace_points[i]
       /\ ret.val.prefactors[((j - 1) * NumPoints(A.outp_feat)) + i]
            = ProductMatr(A, B)[i][j]

\* C8: for an operator A and a vector B over the kernel of A's input basis,
\* multiply(A, B) returns a vector of len(B) groups, each group made of all
\* the points of A.outp_feat, the prefactors of group j being column j of
\* A.matr @ inner(A.inp_feat, B); for len(B) = 1 that is one element.
C8_MultiplyVec ==
  (ret.op = "multiply_vec" /\ ops[ret.arg.A].inp_feat.k = ret.arg.B.k
     /\ EvenlySplit(ret.arg.B)) =>
    MultiplyVecAsExpected(ops[ret.arg.A], ret.arg.B)

\* the same for every product except that of an operator with a one-point
\* output basis and a one-element vector
MultiplyVecBeyondOneByOne ==
  (ret.op = "multiply_vec" /\ ops[ret.arg.A].inp_feat.k = ret.arg.B.k
     /\ EvenlySplit(ret.arg.B)
     /\ (NumPoints(ops[ret.arg.A].outp_feat) > 1 \/ ret.arg.B.len > 1)) =>
    MultiplyVecAsExpected(ops[ret.arg.A], ret.arg.B)

\* multiply(multiply(A, B), C) and multiply(A, multiply(B, C))
LeftGrouping(A, B, C) ==
  IF multiply_op(A, B).err # "" THEN multiply_op(A, B)
  ELSE multiply_op(multiply_op(A, B).obj, C)
RightGrouping(A, B, C) ==
  IF multiply_op(B, C).err # "" THEN multiply_op(B, C)
  ELSE multiply_op(A, multiply_op(B, C).obj)

SameOperator(r, q, A, C) ==
  /\ r.err = "" /\ q.err = ""
  /\ r.obj.inp_feat = C.inp_feat /\ q.obj.inp_feat = C.inp_feat
  /\ r.obj.outp_feat = A.outp_feat /\ q.obj.outp_feat = A.outp_feat
  /\ r.obj.matr = q.obj.matr

\* the last call composed a product of two operators of the heap with a
\* third: (A B) C when left, A (B C) otherwise
ComposedThree(left) ==
  /\ ret.op = "multiply" /\ ret.depth = 2
  /\ IF left THEN ret.arg.A = 0 /\ ret.arg.B # 0 ELSE ret.arg.B = 0 /\ ret.arg.A # 0

\* C9: for operators A, B, C that can be composed, multiply(multiply(A, B), C)
\* and multiply(A, multiply(B, C)) both succeed, have the input basis of C and
\* the output basis of A, and have equal coefficient matrices.
C9_Associative ==
  /\ ComposedThree(TRUE) =>
       LET A == ops[ret.arg.prev[1]]
           B == ops[ret.arg.prev[2]]
           C == ops[ret.arg.B]
       IN  (ret.err = "" \/ RightGrouping(A, B, C).err = "") =>
             SameOperator([err |-> ret.err, obj |-> ret.val], RightGrouping(A, B, C), A, C)
  /\ ComposedThree(FALSE) =>
       LET A == ops[ret.arg.A]
           B == ops[ret.arg.prev[1]]
           C == ops[ret.arg.prev[2]]
       IN  (ret.err = "" \/ LeftGrouping(A, B, C).err = "") =>
             SameOperator(LeftGrouping(A, B, C), [err |-> ret.err, obj |-> ret.val], A, C)

\* (A B) C for three distinct operators of the heap, B an inverse, the bases
\* of A and C of different sizes
C9_Witness ==
  /\ ComposedThree(TRUE) /\ ret.err = ""
  /\ Cardinality({ret.arg.prev[1], ret.arg.prev[2], ret.arg.B}) = 3
  /\ ops[ret.arg.prev[2]].inv # 0 /\ ops[ret.arg.prev[2]].inv < ret.arg.prev[2]
  /\ NRows(ret.val.matr) # NCols(ret.val.matr)

CovOpAsExpected(v) ==
  /\ ret.err = ""
  /\ ret.val.ref = Len(ops)
  /\ ops[ret.val.ref].inp_feat = ops[ret.val.ref].outp_feat
  /\ ops[ret.val.ref].inp_feat.k = v.k
  /\ ops[ret.val.ref].inp_feat.inspace_points = v.inspace_points
  /\ ops[ret.val.ref].inp_feat.is_simple = v.is_simple
  /\ ops[ret.val.ref].inp_feat.points_per_split = v.points_per_split
  /\ ops[ret.val.ref].inp_feat.len = v.len
  /\ ops[ret.val.ref].inp_feat.prefactors = Ones(NumPoints(v))
  /\ ops[ret.val.ref].matr = diag(v.prefactors)
  /\ ops[ret.val.ref].inv = 0

\* C11: for a vector v, simple or balanced with any group size, CovOp(v)
\* constructs an operator whose input and output basis are one vector with
\* v's points, kernel and grouping and all prefactors 1, whose matrix is
\* diag(v.prefactors) and whose inverse cache is empty.
C11_CovOp ==
  (ret.op = "CovOp") => CovOpAsExpected(ret.arg.inp_feat)

\* The same for the vectors that have one element per point.
CovOpOfOnePointGroups ==
  (ret.op = "CovOp" /\ ret.arg.inp_feat.len = NumPoints(ret.arg.inp_feat)) =>
    CovOpAsExpected(ret.arg.inp_feat)
====
